---- MODULE Spec2Model ----
(***************************************************************************)
(* Model of src/zad/ind/norm.py: the student roster command line tool.     *)
(*                                                                         *)
(* State: the database files (catalog, two sequences, two tables) and, per *)
(* invocation of main(), the command line, the parsed namespace, the       *)
(* position in main()/add_student(), the locals of add_student(), the      *)
(* connection add_student() holds, and what the invocation printed.        *)
(*                                                                         *)
(* Text is modelled as sequences of one-character strings, so that the     *)
(* int() conversion of --group, the INTEGER -> TEXT cast of the group      *)
(* title and the TEXT -> INT[] cast of the grade are computed.             *)
(***************************************************************************)
EXTENDS Integers, Sequences, FiniteSets, TLC

(* ---------------------------- bounds ---------------------------------- *)

\* A new add invocation is started only while both sequences of its database
\* are at most MaxSeq (sequential runs).
MaxSeq == 2
\* The same cap for invocations that run concurrently.
MaxConcSeq == 1

Procs == {1, 2}

(* ---------------------------- text ------------------------------------ *)

Digits == {"0", "1", "2", "3", "4", "5", "6", "7", "8", "9"}

DigitVal(c) ==
    CASE c = "0" -> 0 [] c = "1" -> 1 [] c = "2" -> 2 [] c = "3" -> 3
      [] c = "4" -> 4 [] c = "5" -> 5 [] c = "6" -> 6 [] c = "7" -> 7
      [] c = "8" -> 8 [] c = "9" -> 9

DigitChar(n) ==
    CASE n = 0 -> "0" [] n = 1 -> "1" [] n = 2 -> "2" [] n = 3 -> "3"
      [] n = 4 -> "4" [] n = 5 -> "5" [] n = 6 -> "6" [] n = 7 -> "7"
      [] n = 8 -> "8" [] n = 9 -> "9"

IsDigits(s) == Len(s) > 0 /\ \A i \in 1..Len(s) : s[i] \in Digits

\* int(s) of Python for a string of decimal digits (argparse type=int).
RECURSIVE IntOf(_)
IntOf(s) ==
    IF Len(s) = 0 THEN 0
    ELSE 10 * IntOf(SubSeq(s, 1, Len(s) - 1)) + DigitVal(s[Len(s)])

\* The storage layer's rendering of a non-negative INTEGER parameter as TEXT.
RECURSIVE StrOfInt(_)
StrOfInt(n) ==
    IF n < 10 THEN <<DigitChar(n)>>
    ELSE Append(StrOfInt(n \div 10), DigitChar(n % 10))

\* The pieces of s between the commas.
RECURSIVE SplitComma(_)
SplitComma(s) ==
    IF \A i \in 1..Len(s) : s[i] # ","
    THEN <<s>>
    ELSE LET k == CHOOSE i \in 1..Len(s) :
                     s[i] = "," /\ \A j \in 1..(i - 1) : s[j] # ","
         IN <<SubSeq(s, 1, k - 1)>> \o SplitComma(SubSeq(s, k + 1, Len(s)))

\* The storage layer's cast of a TEXT parameter to INT[]: "[4,5]" is a list,
\* anything not of that shape is a conversion error.
GradeCastOk(s) ==
    /\ Len(s) >= 3
    /\ s[1] = "[" /\ s[Len(s)] = "]"
    /\ LET parts == SplitComma(SubSeq(s, 2, Len(s) - 1))
       IN \A i \in 1..Len(parts) : IsDigits(parts[i])

GradeCast(s) ==
    LET parts == SplitComma(SubSeq(s, 2, Len(s) - 1))
    IN [i \in 1..Len(parts) |-> IntOf(parts[i])]

(* ---------------------------- inputs ---------------------------------- *)

\* An optional value is a set with at most one element ({} is None/absent).
Opt(S) == {{}} \cup {{x} : x \in S}

The(o) == CHOOSE x \in o : TRUE

DefaultDb == "students.db"

Paths == {DefaultDb}

Names == {<<"A">>, <<"B">>}

GroupTokens == {<<"1">>, <<"0", "1">>, <<"2">>, <<"I", "S">>}

GradeTokens == {<<"[", "4", ",", "5", "]">>, <<"x">>}

SelectTokens == {<<"1">>, <<"0", "1">>, <<"2">>}

Commands == {"none", "add", "display", "select"}

\* The command lines: the subcommand and the options given to it.
Argvs ==
    {a \in [command : Commands, db : Opt(Paths), name : Opt(Names),
            group : Opt(GroupTokens), grade : Opt(GradeTokens),
            select : Opt(SelectTokens)] :
        /\ a.command # "add" => a.name = {} /\ a.group = {} /\ a.grade = {}
        /\ a.command # "select" => a.select = {}}

(* ---------------------------- storage --------------------------------- *)

AllObjects == {"group_st", "student_st", "groups", "students"}

\* A database file on which nothing has been created yet.
EmptyDb ==
    [objects |-> {},
     seq     |-> [group_st |-> 1, student_st |-> 1],
     cur     |-> [group_st |-> 0, student_st |-> 0],
     groups   |-> <<>>,
     students |-> <<>>]

\* CREATE OR REPLACE SEQUENCE: the sequence starts again at 1.
CreateSequence(d, s) ==
    [d EXCEPT !.objects = @ \cup {s}, !.seq[s] = 1, !.cur[s] = 0]

CreateSequenceIfNotExists(d, s) ==
    IF s \in d.objects THEN d
    ELSE [d EXCEPT !.objects = @ \cup {s}, !.seq[s] = 1, !.cur[s] = 0]

CreateGroupsIfNotExists(d) ==
    IF "groups" \in d.objects THEN d
    ELSE [d EXCEPT !.objects = @ \cup {"groups"}, !.groups = <<>>]

CreateStudentsIfNotExists(d) ==
    IF "students" \in d.objects THEN d
    ELSE [d EXCEPT !.objects = @ \cup {"students"}, !.students = <<>>]

\* create_db: the four CREATE ... IF NOT EXISTS statements, in order.
create_db(d) ==
    CreateStudentsIfNotExists(
        CreateGroupsIfNotExists(
            CreateSequenceIfNotExists(
                CreateSequenceIfNotExists(d, "group_st"), "student_st")))

\* nextval that records the value after the one handed out as the current one.
NextValCurOff(d, s) ==
    [val |-> d.seq[s],
     db  |-> [d EXCEPT !.seq[s] = @ + 1, !.cur[s] = d.seq[s] + 1]]

\* nextval(s): the value handed out and the database after it.
NextVal(d, s) ==
    [val |-> d.seq[s],
     db  |-> [d EXCEPT !.seq[s] = @ + 1, !.cur[s] = d.seq[s]]]

GroupIds(d) == {d.groups[i].group_id : i \in 1..Len(d.groups)}

StudentIds(d) == {d.students[i].student_id : i \in 1..Len(d.students)}

\* A lookup that never finds a row.
LookupGroupNone(d, group) == {}

\* SELECT group_id FROM groups WHERE group_title = ? with an integer (or
\* None) parameter: the ids of the matching rows. NULL matches nothing.
LookupGroup(d, group) ==
    IF group = {} THEN {}
    ELSE {d.groups[i].group_id :
            i \in {j \in 1..Len(d.groups) :
                     d.groups[j].group_title = StrOfInt(The(group))}}

\* A failed statement adds no row; whether the sequence value it drew is
\* kept is not fixed by the program, so both outcomes are possible.
Failed(d, s) ==
    {[ok |-> FALSE, db |-> d], [ok |-> FALSE, db |-> NextVal(d, s).db]}

\* An insert that leaves the table alone when a row has the title already.
InsertGroupIfAbsent(d, group) ==
    IF group # {} /\ \E i \in 1..Len(d.groups) :
                       d.groups[i].group_title = StrOfInt(The(group))
    THEN {[ok |-> TRUE, db |-> d]}
    ELSE LET nv == NextVal(d, "group_st")
         IN IF group = {} \/ nv.val \in GroupIds(d)
            THEN Failed(d, "group_st")
            ELSE {[ok |-> TRUE,
                   db |-> [nv.db EXCEPT !.groups =
                              Append(@, [group_id    |-> nv.val,
                                         group_title |-> StrOfInt(The(group))])]]}

\* INSERT INTO groups VALUES (nextval('group_st'), ?): the possible outcomes.
InsertGroup(d, group) ==
    LET nv == NextVal(d, "group_st")
    IN IF group = {} \/ nv.val \in GroupIds(d)
       THEN Failed(d, "group_st")
       ELSE {[ok |-> TRUE,
              db |-> [nv.db EXCEPT !.groups =
                         Append(@, [group_id    |-> nv.val,
                                    group_title |-> StrOfInt(The(group))])]]}

\* INSERT INTO students VALUES (nextval('student_st'), ?, ?, ?): the
\* possible outcomes. NOT NULL, the INT[] cast, the primary key and the
\* foreign key are checked by the storage layer.
InsertStudent(d, name, group_id, grade) ==
    LET nv == NextVal(d, "student_st")
    IN IF \/ name = {} \/ group_id = {} \/ grade = {}
          \/ ~GradeCastOk(The(grade))
          \/ nv.val \in StudentIds(d)
          \/ The(group_id) \notin GroupIds(d)
       THEN Failed(d, "student_st")
       ELSE {[ok |-> TRUE,
              db |-> [nv.db EXCEPT !.students =
                         Append(@, [student_id    |-> nv.val,
                                    student_name  |-> The(name),
                                    group_id      |-> The(group_id),
                                    student_grade |-> GradeCast(The(grade))])]]}

\* The title of the groups row with the given id (the primary key).
TitleOf(d, gid) ==
    LET i == CHOOSE j \in 1..Len(d.groups) : d.groups[j].group_id = gid
    IN d.groups[i].group_title

Joined(d) ==
    SelectSeq(d.students, LAMBDA s : s.group_id \in GroupIds(d))

RecordOf(d, s) ==
    [name  |-> s.student_name,
     group |-> TitleOf(d, s.group_id),
     grade |-> s.student_grade]

\* select_all: students INNER JOIN groups, in storage order.
select_all(d) ==
    LET rows == Joined(d)
    IN [i \in 1..Len(rows) |-> RecordOf(d, rows[i])]

\* The join without the WHERE clause.
select_by_grade_unfiltered(d, v) ==
    LET rows == Joined(d)
    IN [i \in 1..Len(rows) |-> RecordOf(d, rows[i])]

\* select_by_grade: the same join WHERE groups.group_title = ?.
select_by_grade(d, v) ==
    LET rows == SelectSeq(Joined(d),
                          LAMBDA s : TitleOf(d, s.group_id) = v)
    IN [i \in 1..Len(rows) |-> RecordOf(d, rows[i])]

\* display_students: the message for an empty list, else one table row
\* per record, numbered from 1.
display_students(staff) ==
    IF Len(staff) = 0
    THEN [kind |-> "empty", rows |-> <<>>]
    ELSE [kind |-> "table",
          rows |-> [i \in 1..Len(staff) |->
                      [idx |-> i, name |-> staff[i].name,
                       group |-> staff[i].group, grade |-> staff[i].grade]]]

NoOutput == [kind |-> "none", rows |-> <<>>]

(* ---------------------------- the parser ------------------------------ *)

NoArgs ==
    [command |-> "none", hasdb |-> FALSE, db |-> DefaultDb, name |-> {},
     group |-> {}, grade |-> {}, select |-> {}]

\* parser.parse_args: FALSE when the parser exits with a usage error.
ParseOk(a) ==
    CASE a.command = "none"    -> a.db = {}
      [] a.command = "add"     -> /\ a.name # {}
                                  /\ a.grade # {}
                                  /\ a.group # {} => IsDigits(The(a.group))
      [] a.command = "display" -> TRUE
      [] a.command = "select"  -> a.select # {}

\* The namespace parse_args returns: --db belongs to the subcommands only,
\* --group is converted by int and is None when it is not given.
Parse(a) ==
    [command |-> a.command,
     hasdb   |-> a.command # "none",
     db      |-> IF a.db = {} THEN DefaultDb ELSE The(a.db),
     name    |-> a.name,
     group   |-> IF a.group = {} THEN {} ELSE {IntOf(The(a.group))},
     grade   |-> a.grade,
     select  |-> a.select]

(* ---------------------------- state ----------------------------------- *)

VARIABLES
    db,       \* path -> database
    pc,       \* process -> position in main()
    argv,     \* process -> command line of its invocation
    args,     \* process -> namespace returned by parse_args
    loc,      \* process -> locals of add_student: row, group_id
    conn,     \* process -> add_student's connection is open
    outcome,  \* process -> how the invocation ended
    staff,    \* process -> list handed to display_students
    out,      \* process -> what display_students printed
    pre       \* process -> the databases when the invocation started

vars == <<db, pc, argv, args, loc, conn, outcome, staff, out, pre>>

NoLoc == [row |-> {}, group_id |-> {}]

NoArgv ==
    [command |-> "none", db |-> {}, name |-> {}, group |-> {}, grade |-> {},
     select |-> {}]

Init ==
    /\ db = [p \in Paths |-> EmptyDb]
    /\ pc = [p \in Procs |-> "idle"]
    /\ argv = [p \in Procs |-> NoArgv]
    /\ args = [p \in Procs |-> NoArgs]
    /\ loc = [p \in Procs |-> NoLoc]
    /\ conn = [p \in Procs |-> FALSE]
    /\ outcome = [p \in Procs |-> "none"]
    /\ staff = [p \in Procs |-> <<>>]
    /\ out = [p \in Procs |-> NoOutput]
    /\ pre = [p \in Procs |-> db]

Running(p) == pc[p] \notin {"idle", "done"}

\* main(), lines 201-276: parse the command line and read args.db.
Begin(p, a, cap) ==
    /\ ~Running(p)
    /\ LET path == IF a.db = {} THEN DefaultDb ELSE The(a.db)
       IN a.command = "add" =>
             /\ db[path].seq.group_st <= cap
             /\ db[path].seq.student_st <= cap
    /\ argv' = [argv EXCEPT ![p] = a]
    /\ pre' = [pre EXCEPT ![p] = db]
    /\ loc' = [loc EXCEPT ![p] = NoLoc]
    /\ conn' = [conn EXCEPT ![p] = FALSE]
    /\ staff' = [staff EXCEPT ![p] = <<>>]
    /\ out' = [out EXCEPT ![p] = NoOutput]
    /\ IF ~ParseOk(a)
       THEN /\ args' = [args EXCEPT ![p] = NoArgs]
            /\ pc' = [pc EXCEPT ![p] = "done"]
            /\ outcome' = [outcome EXCEPT ![p] = "usage"]
       ELSE /\ args' = [args EXCEPT ![p] = Parse(a)]
            /\ IF Parse(a).hasdb
               THEN /\ pc' = [pc EXCEPT ![p] = "create_db"]
                    /\ outcome' = [outcome EXCEPT ![p] = "none"]
               ELSE /\ pc' = [pc EXCEPT ![p] = "done"]
                    /\ outcome' = [outcome EXCEPT ![p] = "AttributeError"]
    /\ UNCHANGED db

\* Invocations run one after another: one process, started when idle.
Start == \E a \in Argvs : Begin(1, a, MaxSeq) /\ ~Running(2)

\* The add command lines of the concurrent runs: accepted by the parser,
\* on the default database, for one student name.
AddArgvs ==
    {a \in Argvs : /\ a.command = "add" /\ ParseOk(a)
                   /\ a.db = {} /\ a.name = {<<"A">>}}

\* add invocations run at the same time against the same file.
ConcStart == \E p \in Procs : \E a \in AddArgvs : Begin(p, a, MaxConcSeq)

\* main(), lines 277-290: create_db(db_path), then the dispatch.
CreateDb(p) ==
    /\ pc[p] = "create_db"
    /\ db' = [db EXCEPT ![args[p].db] = create_db(@)]
    /\ pc' = [pc EXCEPT ![p] =
                 CASE args[p].command = "add"     -> "add_lookup"
                   [] args[p].command = "display" -> "display"
                   [] args[p].command = "select"  -> "select"]
    /\ UNCHANGED <<argv, args, loc, conn, outcome, staff, out, pre>>

\* add_student, lines 101-128: connect, look the title up, take the id of
\* a row found.
AddLookup(p) ==
    /\ pc[p] = "add_lookup"
    /\ conn' = [conn EXCEPT ![p] = TRUE]
    /\ LET found == LookupGroup(db[args[p].db], args[p].group)
       IN IF found = {}
          THEN /\ loc' = [loc EXCEPT ![p] = NoLoc]
               /\ pc' = [pc EXCEPT ![p] = "add_ins_group"]
          ELSE \E gid \in found :
                 /\ loc' = [loc EXCEPT ![p] = [row |-> {gid}, group_id |-> {gid}]]
                 /\ pc' = [pc EXCEPT ![p] = "add_ins_student"]
    /\ UNCHANGED <<db, argv, args, outcome, staff, out, pre>>

\* add_student, lines 113-118: insert the new group row.
AddInsertGroup(p) ==
    /\ pc[p] = "add_ins_group"
    /\ \E o \in InsertGroup(db[args[p].db], args[p].group) :
         /\ db' = [db EXCEPT ![args[p].db] = o.db]
         /\ IF o.ok
            THEN /\ pc' = [pc EXCEPT ![p] = "add_currval"]
                 /\ UNCHANGED outcome
            ELSE /\ pc' = [pc EXCEPT ![p] = "done"]
                 /\ outcome' = [outcome EXCEPT ![p] = "storage_error"]
    /\ UNCHANGED <<argv, args, loc, conn, staff, out, pre>>

\* add_student, lines 119-125: group_id = currval('group_st').
AddCurrval(p) ==
    /\ pc[p] = "add_currval"
    /\ loc' = [loc EXCEPT ![p].group_id = {db[args[p].db].cur.group_st}]
    /\ pc' = [pc EXCEPT ![p] = "add_ins_student"]
    /\ UNCHANGED <<db, argv, args, conn, outcome, staff, out, pre>>

\* add_student, lines 131-137: insert the student row.
AddInsertStudent(p) ==
    /\ pc[p] = "add_ins_student"
    /\ \E o \in InsertStudent(db[args[p].db], args[p].name, loc[p].group_id,
                              args[p].grade) :
         /\ db' = [db EXCEPT ![args[p].db] = o.db]
         /\ IF o.ok
            THEN /\ pc' = [pc EXCEPT ![p] = "add_commit"]
                 /\ UNCHANGED outcome
            ELSE /\ pc' = [pc EXCEPT ![p] = "done"]
                 /\ outcome' = [outcome EXCEPT ![p] = "storage_error"]
    /\ UNCHANGED <<argv, args, loc, conn, staff, out, pre>>

\* add_student, lines 139-140: commit (every statement has already been
\* committed on its own) and close.
AddCommitClose(p) ==
    /\ pc[p] = "add_commit"
    /\ conn' = [conn EXCEPT ![p] = FALSE]
    /\ pc' = [pc EXCEPT ![p] = "done"]
    /\ outcome' = [outcome EXCEPT ![p] = "ok"]
    /\ UNCHANGED <<db, argv, args, loc, staff, out, pre>>

\* main(), line 286: display_students(select_all(db_path)).
Display(p) ==
    /\ pc[p] = "display"
    /\ staff' = [staff EXCEPT ![p] = select_all(db[args[p].db])]
    /\ out' = [out EXCEPT ![p] = display_students(select_all(db[args[p].db]))]
    /\ pc' = [pc EXCEPT ![p] = "done"]
    /\ outcome' = [outcome EXCEPT ![p] = "ok"]
    /\ UNCHANGED <<db, argv, args, loc, conn, pre>>

\* main(), line 290: display_students(select_by_grade(db_path, args.select)).
Select(p) ==
    /\ pc[p] = "select"
    /\ LET r == select_by_grade(db[args[p].db], The(args[p].select))
       IN /\ staff' = [staff EXCEPT ![p] = r]
          /\ out' = [out EXCEPT ![p] = display_students(r)]
    /\ pc' = [pc EXCEPT ![p] = "done"]
    /\ outcome' = [outcome EXCEPT ![p] = "ok"]
    /\ UNCHANGED <<db, argv, args, loc, conn, pre>>

Step(p) ==
    \/ CreateDb(p)
    \/ AddLookup(p)
    \/ AddInsertGroup(p)
    \/ AddCurrval(p)
    \/ AddInsertStudent(p)
    \/ AddCommitClose(p)
    \/ Display(p)
    \/ Select(p)

Next == Start \/ \E p \in Procs : Step(p)

Spec == Init /\ [][Next]_vars

AddStep(p) ==
    \/ CreateDb(p)
    \/ AddLookup(p)
    \/ AddInsertGroup(p)
    \/ AddCurrval(p)
    \/ AddInsertStudent(p)
    \/ AddCommitClose(p)

ConcNext == ConcStart \/ \E p \in Procs : AddStep(p)

ConcSpec == Init /\ [][ConcNext]_vars

(* ---------------------------- claims ---------------------------------- *)

Count(s, r) == Cardinality({i \in 1..Len(s) : s[i] = r})

\* The two lists hold the same records the same number of times.
SameRecords(s, t) ==
    /\ Len(s) = Len(t)
    /\ \A i \in 1..Len(s) : Count(s, s[i]) = Count(t, s[i])

RemoveAt(s, i) == SubSeq(s, 1, i - 1) \o SubSeq(s, i + 1, Len(s))

\* The invocation of p is an add that ran to its end without an error.
AddSucceeded(p) ==
    pc[p] = "done" /\ argv[p].command = "add" /\ outcome[p] = "ok"

\* The student insert of p's add failed after p had inserted a new group.
StudentInsertFailedAfterNewGroup(p) ==
    /\ pc[p] = "done" /\ argv[p].command = "add"
    /\ outcome[p] = "storage_error"
    /\ loc[p].row = {} /\ loc[p].group_id # {}

\* C1: after a successful add(name, group, grade), select_all holds exactly
\* one more record than before the add, the extra record has the name, the
\* group title and the grade that were given, and the records that were
\* there before are all still there.
C1_AddRecordsGivenTriple ==
    \A p \in Procs :
        AddSucceeded(p) /\ argv[p].group # {} =>
            LET before == select_all(pre[p][args[p].db])
                after  == select_all(db[args[p].db])
                given  == [name  |-> The(argv[p].name),
                           group |-> The(argv[p].group),
                           grade |-> GradeCast(The(argv[p].grade))]
            IN /\ Len(after) = Len(before) + 1
               /\ \E i \in 1..Len(after) :
                      /\ after[i] = given
                      /\ SameRecords(RemoveAt(after, i), before)

\* The positions of the groups rows with the given title.
RowsTitled(d, t) == {i \in 1..Len(d.groups) : d.groups[i].group_title = t}

\* C2: with adds run one after another, groups holds at most one row per
\* title; a successful add leaves exactly one groups row with its title, and
\* students that show the same title all carry that row's group_id.
C2_GroupReuse ==
    \A f \in Paths :
        LET d == db[f]
        IN /\ \A i, j \in 1..Len(d.groups) :
                  d.groups[i].group_title = d.groups[j].group_title => i = j
           /\ \A i, j \in 1..Len(d.students) :
                  TitleOf(d, d.students[i].group_id)
                      = TitleOf(d, d.students[j].group_id)
                  => d.students[i].group_id = d.students[j].group_id
           /\ \A p \in Procs :
                  AddSucceeded(p) /\ args[p].db = f =>
                      LET rows == RowsTitled(d, StrOfInt(The(args[p].group)))
                      IN /\ Cardinality(rows) = 1
                         /\ \E i \in rows :
                                d.students[Len(d.students)].group_id
                                    = d.groups[i].group_id

\* Two students were added under one title: one groups row, both refer to it.
C2_Witness ==
    \E p \in Procs :
        /\ AddSucceeded(p)
        /\ LET d == db[args[p].db]
           IN /\ Len(d.students) = 2
              /\ d.students[1].group_id = d.students[2].group_id
              /\ Len(pre[p][args[p].db].groups) = 1
              /\ Len(d.groups) = 1

\* C3: every students row has the group_id of an existing groups row, and
\* add_student reaches its student insert only with a group_id that groups
\* holds.
C3_ForeignKey ==
    /\ \A f \in Paths :
           \A i \in 1..Len(db[f].students) :
               db[f].students[i].group_id \in GroupIds(db[f])
    /\ \A p \in Procs :
           pc[p] = "add_ins_student" =>
               /\ loc[p].group_id # {}
               /\ The(loc[p].group_id) \in GroupIds(db[args[p].db])

\* An add that has just inserted a new group is about to insert its student
\* into a table that already has a row.
C3_Witness ==
    \E p \in Procs :
        /\ pc[p] = "add_ins_student"
        /\ loc[p].row = {}
        /\ Len(db[args[p].db].students) > 0
        /\ Len(db[args[p].db].groups) > 1

C5_NoSubcommandCreatesSchema ==
    \A p \in Procs :
        pc[p] = "done" /\ argv[p].command = "none" /\ argv[p].db = {} =>
            /\ outcome[p] = "ok"
            /\ db[DefaultDb].objects = AllObjects
            /\ db[DefaultDb].groups = pre[p][DefaultDb].groups
            /\ db[DefaultDb].students = pre[p][DefaultDb].students
            /\ out[p] = NoOutput

\* The command line lacks an option the subcommand is documented to need.
LacksRequired(a) ==
    \/ a.command = "add" /\ (a.name = {} \/ a.group = {} \/ a.grade = {})
    \/ a.command = "select" /\ a.select = {}

\* C6: an add without --name, --group or --grade, and a select without
\* --select, is rejected by the parser before create_db or add_student runs
\* and leaves the database as it was.
C6_MissingOptionRejected ==
    \A p \in Procs :
        pc[p] # "idle" /\ LacksRequired(argv[p]) =>
            /\ pc[p] = "done"
            /\ outcome[p] = "usage"
            /\ db = pre[p]

\* C7: no invocation ends with the connection it opened still open.
C7_ConnectionClosed ==
    \A p \in Procs : pc[p] = "done" => ~conn[p]

\* C8: create_db on a database on which create_db has already run raises no
\* error and leaves tables, rows and both sequences as they were.
C8_CreateDbIdempotent ==
    \A p \in Procs :
        /\ pc[p] \in {"add_lookup", "display", "select"}
        /\ pre[p][args[p].db].objects = AllObjects
        => db = pre[p]

\* create_db has just run again on a database that holds a student.
C8_Witness ==
    \E p \in Procs :
        /\ pc[p] \in {"add_lookup", "display", "select"}
        /\ pre[p][args[p].db].objects = AllObjects
        /\ Len(pre[p][args[p].db].students) > 0
        /\ pre[p][args[p].db].seq.group_st > 1

\* p looked its title up, found no row and has inserted a groups row.
InsertedAfterMiss(p) ==
    /\ args[p].command = "add" /\ args[p].group # {}
    /\ loc[p].row = {}
    /\ \/ pc[p] = "add_currval"
       \/ pc[p] \in {"add_ins_student", "add_commit", "done"}
          /\ loc[p].group_id # {}

\* C9: when two concurrent adds of one title have both looked it up before
\* either inserted it, both insert: groups then holds two rows of that title
\* with different group_id.
C9_DuplicateGroupRace ==
    \A p, q \in Procs :
        /\ p # q
        /\ InsertedAfterMiss(p) /\ InsertedAfterMiss(q)
        /\ args[p].db = args[q].db /\ args[p].group = args[q].group
        => Cardinality(RowsTitled(db[args[p].db],
                                  StrOfInt(The(args[p].group)))) >= 2

\* groups holds two rows of one title after both racing adds ended.
C9_Witness ==
    /\ \A p \in Procs : AddSucceeded(p) /\ loc[p].row = {}
    /\ \E f \in Paths : \E i, j \in 1..Len(db[f].groups) :
           /\ db[f].groups[i].group_title = db[f].groups[j].group_title
           /\ db[f].groups[i].group_id # db[f].groups[j].group_id

\* C10: when the student insert fails after a new group row was inserted,
\* groups, students and both sequences are as they were before the add.
C10_AllOrNothing ==
    \A p \in Procs :
        StudentInsertFailedAfterNewGroup(p) =>
            LET d0 == pre[p][args[p].db]
                d1 == db[args[p].db]
            IN /\ d1.groups = d0.groups
               /\ d1.students = d0.students
               /\ d1.seq = d0.seq

====
